---------------------------- MODULE Spec2Model ----------------------------
(***************************************************************************)
(* Model of pdfquad/properties.py: the extraction of a report (an XML      *)
(* element tree) from one PDF, document -> pages -> images -> image stream.*)
(*                                                                         *)
(* Two specifications share the module:                                    *)
(*   Spec        getProperties, one step per block of the function, with   *)
(*               getPageProperties / getImageProperties evaluated whole;   *)
(*   SpecStream  getImageStreamProperties applied to every decoder outcome *)
(*               of a bounded input set.                                   *)
(* A Python function that can raise is an operator returning               *)
(* [raised |-> BOOLEAN, elt |-> element].                                  *)
(***************************************************************************)
EXTENDS Integers, Sequences, FiniteSets, TLC

VARIABLES pc, doc, docOpen, propertiesElt, exceptionsFileElt, docInfo,
          pagesElt, pageNo, report, im, streamResult

vars == <<pc, doc, docOpen, propertiesElt, exceptionsFileElt, docInfo,
          pagesElt, pageNo, report, im, streamResult>>

docVars == <<pc, doc, docOpen, propertiesElt, exceptionsFileElt, docInfo,
             pagesElt, pageNo, report>>

streamVars == <<im, streamResult>>

(***************************************************************************)
(* Bounds of the model.                                                    *)
(***************************************************************************)
MaxPages == 2

MaxImages == 2

MaxInfo == 2

(***************************************************************************)
(* Python values: None, bool, int, str, bytes and pairs (2-tuples).        *)
(***************************************************************************)
PyNone == [t |-> "none", i |-> 0, s |-> "", a |-> 0, b |-> 0]

PyBool(x) == [t |-> "bool", i |-> IF x THEN 1 ELSE 0, s |-> "", a |-> 0, b |-> 0]

PyInt(n) == [t |-> "int", i |-> n, s |-> "", a |-> 0, b |-> 0]

PyStr(x) == [t |-> "str", i |-> 0, s |-> x, a |-> 0, b |-> 0]

PyBytes(x) == [t |-> "bytes", i |-> 0, s |-> x, a |-> 0, b |-> 0]

PyTuple(x, y) == [t |-> "tuple", i |-> 0, s |-> "", a |-> x, b |-> y]

\* a float, kept as its repr
PyFloat(x) == [t |-> "float", i |-> 0, s |-> x, a |-> 0, b |-> 0]

\* str(value), as dictionaryToElt applies it to every value
Str(v) ==
    CASE v.t = "none" -> "None"
      [] v.t = "bool" -> IF v.i = 1 THEN "True" ELSE "False"
      [] v.t = "int" -> ToString(v.i)
      [] v.t = "str" -> v.s
      [] v.t = "float" -> v.s
      [] v.t = "bytes" -> "b'...'"
      [] v.t = "tuple" -> "(" \o ToString(v.a) \o ", " \o ToString(v.b) \o ")"

\* int(text), the inverse of str on the integers the model uses
IntOfText(text) == CHOOSE n \in 0..9 : ToString(n) = text

(***************************************************************************)
(* lxml elements: tag, attributes, text and the ordered children.          *)
(***************************************************************************)
Element(tag) == [tag |-> tag, attrib |-> <<>>, text |-> "", children |-> <<>>]

WithText(elt, text) == [elt EXCEPT !.text = text]

\* elt.append(child)
Append_(elt, child) == [elt EXCEPT !.children = Append(@, child)]

Tags(elt) == [k \in 1..Len(elt.children) |-> elt.children[k].tag]

HasChild(elt, tag) == \E k \in 1..Len(elt.children) : elt.children[k].tag = tag

\* elt.find(tag): the first child with that tag
Find(elt, tag) ==
    elt.children[CHOOSE k \in 1..Len(elt.children) :
                    /\ elt.children[k].tag = tag
                    /\ \A j \in 1..(k - 1) : elt.children[j].tag # tag]

NoElt == Element("")

Raised == [raised |-> TRUE, elt |-> NoElt]

Returned(elt) == [raised |-> FALSE, elt |-> elt]

\* tag names etree.Element rejects with ValueError("Invalid tag name")
InvalidTags == {"Creation Time"}

(***************************************************************************)
(* Python dict: insertion-ordered, as a sequence of <<key, value>>.        *)
(***************************************************************************)
HasKey(d, key) == \E k \in 1..Len(d) : d[k][1] = key

Get(d, key) == d[CHOOSE k \in 1..Len(d) : d[k][1] = key][2]

\* Put with the slip of deleting the key first: a rewritten key goes last
PutMovesToEnd(d, key, value) ==
    Append(SelectSeq(d, LAMBDA e : e[1] # key), <<key, value>>)

\* d[key] = value: an existing key keeps its place, a new one goes last
Put(d, key, value) ==
    IF HasKey(d, key)
    THEN [k \in 1..Len(d) |-> IF d[k][1] = key THEN <<key, value>> ELSE d[k]]
    ELSE Append(d, <<key, value>>)

\* dictionaryToElt(name, dictionary)
dictionaryToElt(name, dictionary) ==
    IF \E k \in 1..Len(dictionary) : dictionary[k][1] \in InvalidTags
    THEN Raised
    ELSE Returned([Element(name) EXCEPT !.children =
            [k \in 1..Len(dictionary) |->
                WithText(Element(dictionary[k][1]), Str(dictionary[k][2]))]])

(***************************************************************************)
(* What the collaborators make of one raw image stream: the outcome of     *)
(* PIL.Image.open/load, of jpegquality.computeJPEGQuality and of ImageCms. *)
(***************************************************************************)
\* (mode, number of bands) of a decoded image; "I;16" is a PIL mode that
\* mode_to_bpp does not list, and a zero band count is what the
\* noComponents != 0 test of getBPC guards against
ModeBands == {<<"1", 1>>, <<"L", 1>>, <<"RGB", 3>>, <<"CMYK", 4>>,
              <<"RGB", 0>>, <<"I;16", 1>>}

Formats == {"JPEG", "PNG"}

\* keys of im.info (a PNG text chunk can carry any keyword)
InfoKeys == {"dpi", "jfif_density", "icc_profile", "format", "JPEGQuality",
             "progressive"}

InfoValues == {PyBytes("raw"), PyTuple(72, 96), PyInt(300)}

DistinctKeys(d) == \A j, k \in 1..Len(d) : j # k => d[j][1] # d[k][1]

InfoDicts ==
    {d \in UNION {[1..n -> InfoKeys \X InfoValues] : n \in 0..MaxInfo} :
        DistinctKeys(d)}

UndecodableStream ==
    [decode |-> "raise", format |-> "", mode |-> "", bands |-> 0,
     info |-> <<>>, jq |-> "none", icc |-> "none"]

HasIccBytes(info) ==
    HasKey(info, "icc_profile") /\ Get(info, "icc_profile").t = "bytes"

\* computeJPEGQuality is called on a JPEG only, and returns or raises
JqOutcomes(format) == IF format = "JPEG" THEN {"ok", "raise"} ELSE {"none"}

\* ImageCms is reached only with a bytes-valued icc_profile: the profile
\* parses or not, and then its name and its description are read or not
IccOutcomes(info) ==
    IF HasIccBytes(info) THEN {"ok", "noParse", "noName", "noDesc"}
                         ELSE {"none"}

DecodedStream(f, mb, d, q, c) ==
    [decode |-> "ok", format |-> f, mode |-> mb[1], bands |-> mb[2],
     info |-> d, jq |-> q, icc |-> c]

(***************************************************************************)
(* getBPC                                                                  *)
(***************************************************************************)
mode_to_bpp ==
    << <<"1", 1>>, <<"L", 8>>, <<"P", 8>>, <<"RGB", 24>>, <<"RGBA", 32>>,
       <<"CMYK", 32>>, <<"YCbCr", 24>>, <<"LAB", 24>>, <<"HSV", 24>>,
       <<"I", 32>>, <<"F", 32>> >>

\* mode_to_bpp[image.mode] raises KeyError for a mode the table lacks, so
\* isinstance(bitsPerPixel, int) is true whenever it is evaluated;
\* int(bitsPerPixel/noComponents) truncates a non-negative quotient
getBPC(image) ==
    IF ~HasKey(mode_to_bpp, image.mode)
    THEN [raised |-> TRUE, bpc |-> 0]
    ELSE LET bitsPerPixel == Get(mode_to_bpp, image.mode)
             noComponents == image.bands
         IN  [raised |-> FALSE,
              bpc |-> IF noComponents # 0
                      THEN bitsPerPixel \div noComponents
                      ELSE -9999]

(***************************************************************************)
(* getImageStreamProperties                                                *)
(***************************************************************************)
\* the <exceptions> element holding one <exception> per message
ExceptionsElt(messages) ==
    [Element("exceptions") EXCEPT !.children =
        [k \in 1..Len(messages) |-> WithText(Element("exception"), messages[k])]]

\* im.size of every decoded image of the model
ImSize == <<100, 50>>

\* what computeJPEGQuality returns: quality, rmsError, nse
JPEGQualityResult == <<PyFloat("84.5"), PyFloat("1.25"), PyFloat("0.998")>>

\* the profile name and description ImageCms reads, before .strip()
IccNameRaw == "sRGB built-in\n"

IccDescriptionRaw == " sRGB IEC61966-2.1 "

\* str.strip() on the strings of the model
Strip(x) ==
    CASE x = "sRGB built-in\n" -> "sRGB built-in"
      [] x = " sRGB IEC61966-2.1 " -> "sRGB IEC61966-2.1"
      [] OTHER -> x

\* one pass of the loop over im.info.items() (lines 242-255)
MergeEntry(propsStream, key, value) ==
    IF value.t = "bytes"
    THEN Put(propsStream, key, PyStr("bytestream"))
    ELSE IF key = "dpi" /\ value.t = "tuple"
    THEN Put(Put(propsStream, "ppi_x", PyInt(value.a)), "ppi_y", PyInt(value.b))
    ELSE IF key = "jfif_density" /\ value.t = "tuple"
    THEN Put(Put(propsStream, "jfif_density_x", PyInt(value.a)),
             "jfif_density_y", PyInt(value.b))
    ELSE IF value.t = "tuple"
    THEN propsStream
    ELSE Put(propsStream, key, value)

RECURSIVE MergeInfo(_, _, _)
\* the loop over im.info.items(), from entry k on
MergeInfo(propsStream, info, k) ==
    IF k > Len(info)
    THEN propsStream
    ELSE MergeInfo(MergeEntry(propsStream, info[k][1], info[k][2]), info, k + 1)

\* lines 219-228: the properties of the decoded image, before getBPC
BasicProps(stream) ==
    << <<"format", PyStr(stream.format)>>,
       <<"width", PyInt(ImSize[1])>>,
       <<"height", PyInt(ImSize[2])>>,
       <<"mode", PyStr(stream.mode)>>,
       <<"components", PyInt(stream.bands)>> >>

\* JpegStep with the slip of dropping the format test
JpegStepAnyFormat(stream, propsStream) ==
    IF stream.jq # "raise"
    THEN <<Put(Put(propsStream, "JPEGQuality", JPEGQualityResult[1]),
               "NSE_JPEGQuality", JPEGQualityResult[3]), <<>> >>
    ELSE <<propsStream, <<"computeJPEGQuality failed">> >>

\* lines 230-240: <<propsStream, exceptions>> after the JPEG quality block
JpegStep(stream, propsStream) ==
    IF stream.format = "JPEG"
    THEN IF stream.jq = "ok"
         THEN <<Put(Put(propsStream, "JPEGQuality", JPEGQualityResult[1]),
                    "NSE_JPEGQuality", JPEGQualityResult[3]), <<>> >>
         ELSE <<propsStream, <<"computeJPEGQuality failed">> >>
    ELSE <<propsStream, <<>> >>

\* lines 257-266: <<propsStream, exceptions>> after the ICC block
IccStep(stream, propsStream, exceptions) ==
    IF ~HasKey(stream.info, "icc_profile")
    THEN <<propsStream, Append(exceptions, "'icc_profile'")>>
    ELSE IF Get(stream.info, "icc_profile").t # "bytes"
    THEN <<propsStream, Append(exceptions, "a bytes-like object is required")>>
    ELSE IF stream.icc = "noParse"
    THEN <<propsStream, Append(exceptions, "cannot open profile from string")>>
    ELSE IF stream.icc = "noName"
    THEN <<propsStream, Append(exceptions, "cannot read profile name")>>
    ELSE LET named == Put(propsStream, "icc_profile_name",
                          PyStr(Strip(IccNameRaw)))
         IN  IF stream.icc = "noDesc"
             THEN <<named, Append(exceptions, "cannot read profile description")>>
             ELSE <<Put(named, "icc_profile_description",
                        PyStr(Strip(IccDescriptionRaw))), exceptions>>

\* DecodeFailed with the slip of not recording the exception
DecodeFailedSilent(propsStream, message) ==
    Returned(Append_(dictionaryToElt("stream", propsStream).elt,
                     ExceptionsElt(<<>>)))

\* lines 211-217: the handler of a failed PIL.Image.open / im.load
DecodeFailed(propsStream, message) ==
    Returned(Append_(dictionaryToElt("stream", propsStream).elt,
                     ExceptionsElt(<<message>>)))

getImageStreamProperties(stream, pageNumber) ==
    IF stream.decode = "raise"
    THEN DecodeFailed(<<>>, "cannot identify image file")
    ELSE LET bitsPerComponent == getBPC(stream)
         IN  IF bitsPerComponent.raised
             THEN Raised
             ELSE LET props == Put(BasicProps(stream), "bpc",
                                   PyInt(bitsPerComponent.bpc))
                      jpeg == JpegStep(stream, props)
                      merged == MergeInfo(jpeg[1], stream.info, 1)
                      icc == IccStep(stream, merged, jpeg[2])
                      propsStreamElt == dictionaryToElt("stream", icc[1])
                  IN  IF propsStreamElt.raised
                      THEN Raised
                      ELSE Returned(Append_(propsStreamElt.elt,
                                            ExceptionsElt(icc[2])))

(***************************************************************************)
(* The document as pymupdf presents it.  page_count is read once; what a   *)
(* page lists and what an object's stream holds is recorded when the code  *)
(* first asks for it, and an xref answers the same way every time.         *)
(***************************************************************************)
Xrefs == {1, 2}

\* the tuple page.get_images() gives for an image object:
\* (xref, smask, width, height, bpc, colorspace, alt. colorspace, name, filter)
ImageRef(xref) ==
    <<PyInt(xref), PyInt(0), PyInt(100), PyInt(50), PyInt(8),
      PyStr("DeviceRGB"), PyStr(""), PyStr("Im"), PyStr("DCTDecode")>>

ImageLists == UNION {[1..n -> Xrefs] : n \in 0..MaxImages}

GoodJpeg ==
    [decode |-> "ok", format |-> "JPEG", mode |-> "RGB", bands |-> 3,
     info |-> <<>>, jq |-> "ok", icc |-> "none"]

\* a 16-bit greyscale PNG: its mode is not in mode_to_bpp
Png16 ==
    [decode |-> "ok", format |-> "PNG", mode |-> "I;16", bands |-> 1,
     info |-> <<>>, jq |-> "none", icc |-> "none"]

\* a PNG whose text chunk keyword is no XML tag name
PngCreationTime ==
    [decode |-> "ok", format |-> "PNG", mode |-> "L", bands |-> 1,
     info |-> << <<"Creation Time", PyStr("2024-01-01")>> >>,
     jq |-> "none", icc |-> "none"]

Unread == [raw |-> "unread", stream |-> UndecodableStream]

\* what doc.xref_stream_raw(xref) and the decoding of its result can give
DocObjects ==
    {[raw |-> "raise", stream |-> UndecodableStream]}
    \cup {[raw |-> "ok", stream |-> s] :
            s \in {UndecodableStream, GoodJpeg, Png16, PngCreationTime}}

\* doc.metadata
Metadata ==
    << <<"format", PyStr("PDF 1.7")>>, <<"title", PyNone>>,
       <<"producer", PyStr("scanner")>> >>

\* (doc.xref_get_key(catalog, "PageMode"), doc.get_sigflags())
CatalogInfos ==
    {[pageMode |-> <<"null", "null">>, sigflags |-> -1],
     [pageMode |-> <<"name", "/UseThumbs">>, sigflags |-> 3]}

(***************************************************************************)
(* getImageDictProperties, getImageProperties, getPageProperties           *)
(***************************************************************************)
getImageDictProperties(image, pageNumber) ==
    dictionaryToElt("dict",
        << <<"xref", image[1]>>, <<"width", image[3]>>, <<"height", image[4]>>,
           <<"bpc", image[5]>>, <<"colorspace", image[6]>>,
           <<"altcolorspace", image[7]>>, <<"filter", image[9]>> >>)

getImageProperties(document, image, pageNumber) ==
    LET propsDictElt == getImageDictProperties(image, pageNumber)
    IN  IF propsDictElt.raised
        THEN Raised
        ELSE LET xref == IntOfText(Find(propsDictElt.elt, "xref").text)
                 object == document.objs[xref]
             IN  IF object.raw # "ok"
                 THEN Raised
                 ELSE LET propsStreamElt ==
                              getImageStreamProperties(object.stream, pageNumber)
                      IN  IF propsStreamElt.raised
                          THEN Raised
                          ELSE Returned(Append_(Append_(Element("image"),
                                   propsDictElt.elt), propsStreamElt.elt))

RECURSIVE PageLoop(_, _, _, _, _)
\* the loop over the images of a page, from image k on
PageLoop(document, images, pageNumber, pageElt, k) ==
    IF k > Len(images)
    THEN Returned(pageElt)
    ELSE LET imageElt == getImageProperties(document, images[k], pageNumber)
         IN  IF imageElt.raised
             THEN Raised
             ELSE PageLoop(document, images, pageNumber,
                           Append_(pageElt, imageElt.elt), k + 1)

\* getPageProperties with the slip of reporting each image object once
getPagePropertiesDeduplicated(document, page, pageNumber) ==
    PageLoop(document,
             SelectSeq([k \in 1..Len(page) |->
                          IF \E j \in 1..(k - 1) : page[j] = page[k]
                          THEN <<>> ELSE page[k]],
                       LAMBDA e : e # <<>>),
             pageNumber,
             [Element("page") EXCEPT
                 !.attrib = << <<"number", Str(PyInt(pageNumber))>> >>], 1)

\* page is the list page.get_images() returns
getPageProperties(document, page, pageNumber) ==
    PageLoop(document, page, pageNumber,
             [Element("page") EXCEPT
                 !.attrib = << <<"number", Str(PyInt(pageNumber))>> >>], 1)

(***************************************************************************)
(* getProperties                                                           *)
(***************************************************************************)
PDF == "batch/scan.pdf"

FileSize == PyInt(2048)

Unopened ==
    [open |-> "unopened", page_count |-> 0, pages |-> <<>>,
     objs |-> [x \in Xrefs |-> Unread],
     catalog |-> [pageMode |-> <<"null", "null">>, sigflags |-> -1]]

NoDocInfo ==
    [pages |-> 0, metadataElt |-> NoElt, pageModeElt |-> NoElt,
     signatureFlagElt |-> NoElt]

Init ==
    /\ pc = "entry"
    /\ doc = Unopened
    /\ docOpen = FALSE
    /\ propertiesElt = NoElt
    /\ exceptionsFileElt = NoElt
    /\ docInfo = NoDocInfo
    /\ pagesElt = NoElt
    /\ pageNo = 0
    /\ report = NoElt
    /\ im = UndecodableStream
    /\ streamResult = [called |-> FALSE, raised |-> FALSE, elt |-> NoElt]

\* lines 61-75: the report element with filePath and fileSize
Start ==
    /\ pc = "entry"
    /\ propertiesElt' =
           Append_(Append_(Element("properties"),
                           WithText(Element("filePath"), PDF)),
                   WithText(Element("fileSize"), Str(FileSize)))
    /\ exceptionsFileElt' = Element("exceptions")
    /\ pc' = "open"
    /\ UNCHANGED <<doc, docOpen, docInfo, pagesElt, pageNo, report, streamVars>>

\* OpenHandler with the slip of adding the openPassword element as well
OpenHandlerWithFlag(message) ==
    LET exceptions == Append_(exceptionsFileElt,
                              WithText(Element("exception"), message))
        flagged == Append_(propertiesElt,
                           WithText(Element("openPassword"), Str(PyBool(FALSE))))
    IN  /\ exceptionsFileElt' = exceptions
        /\ propertiesElt' = Append_(flagged, exceptions)
        /\ report' = Append_(flagged, exceptions)
        /\ pc' = "returned"

\* lines 90-95: the handler of the try block
OpenHandler(message) ==
    LET exceptions == Append_(exceptionsFileElt,
                              WithText(Element("exception"), message))
    IN  /\ exceptionsFileElt' = exceptions
        /\ propertiesElt' = Append_(propertiesElt, exceptions)
        /\ report' = Append_(propertiesElt, exceptions)
        /\ pc' = "returned"

\* line 80 raises: pymupdf.open fails, no handle exists
OpenRaises ==
    /\ pc = "open"
    /\ doc' = [doc EXCEPT !.open = "openRaised"]
    /\ OpenHandler("cannot open broken document")
    /\ UNCHANGED <<docOpen, docInfo, pagesElt, pageNo, streamVars>>

\* line 81 raises: the document is open, doc.authenticate fails
AuthenticateRaises ==
    /\ pc = "open"
    /\ doc' = [doc EXCEPT !.open = "authenticateRaised"]
    /\ docOpen' = TRUE
    /\ OpenHandler("authentication failed")
    /\ UNCHANGED <<docInfo, pagesElt, pageNo, streamVars>>

\* PasswordProtected with the slip of leaving out the return
PasswordProtectedNoReturn ==
    /\ pc = "open"
    /\ doc' = [doc EXCEPT !.open = "password"]
    /\ docOpen' = TRUE
    /\ propertiesElt' = Append_(propertiesElt,
                                WithText(Element("openPassword"), Str(PyBool(TRUE))))
    /\ pc' = "info"
    /\ UNCHANGED <<exceptionsFileElt, docInfo, pagesElt, pageNo, report, streamVars>>

\* lines 82-86: rc == 0, the document has an open password
PasswordProtected ==
    /\ pc = "open"
    /\ doc' = [doc EXCEPT !.open = "password"]
    /\ docOpen' = TRUE
    /\ propertiesElt' = Append_(propertiesElt,
                                WithText(Element("openPassword"), Str(PyBool(TRUE))))
    /\ report' = propertiesElt'
    /\ pc' = "returned"
    /\ UNCHANGED <<exceptionsFileElt, docInfo, pagesElt, pageNo, streamVars>>

\* lines 87-89: rc != 0, no open password
OpenOk ==
    /\ pc = "open"
    /\ doc' = [doc EXCEPT !.open = "ok"]
    /\ docOpen' = TRUE
    /\ propertiesElt' = Append_(propertiesElt,
                                WithText(Element("openPassword"), Str(PyBool(FALSE))))
    /\ pc' = "info"
    /\ UNCHANGED <<exceptionsFileElt, docInfo, pagesElt, pageNo, report, streamVars>>

\* lines 97-121: page count, metadata, PageMode, signature flag
ReadDocInfo ==
    /\ pc = "info"
    /\ \E n \in 0..MaxPages, c \in CatalogInfos :
          /\ doc' = [doc EXCEPT !.page_count = n, !.catalog = c]
          /\ docInfo' =
               [pages |-> n,
                metadataElt |-> dictionaryToElt("meta", Metadata).elt,
                pageModeElt |->
                    WithText(Element("PageMode"),
                             IF c.pageMode[1] = "null" THEN "undefined"
                                                       ELSE c.pageMode[2]),
                signatureFlagElt |->
                    WithText(Element("signatureFlag"), Str(PyInt(c.sigflags)))]
    /\ pagesElt' = Element("pages")
    /\ pageNo' = 1
    /\ pc' = "pages"
    /\ UNCHANGED <<docOpen, propertiesElt, exceptionsFileElt, report, streamVars>>

\* the objects a page's images make the code read, given what was read before
ReadObjects(objs, images) ==
    {o \in [Xrefs -> DocObjects \cup {Unread}] :
        \A x \in Xrefs :
            IF objs[x] # Unread THEN o[x] = objs[x]
            ELSE (o[x] # Unread) <=> (\E k \in 1..Len(images) : images[k] = x)}

\* lines 122-126: one pass of the loop over the pages
NextPage ==
    /\ pc = "pages"
    /\ pageNo <= doc.page_count
    /\ \E images \in ImageLists :
         \E objs \in ReadObjects(doc.objs, images) :
            LET document == [doc EXCEPT !.pages = Append(@, images),
                                        !.objs = objs]
                page == [k \in 1..Len(images) |-> ImageRef(images[k])]
                pageElt == getPageProperties(document, page, pageNo)
            IN  /\ doc' = document
                /\ IF pageElt.raised
                   THEN /\ pc' = "raised"
                        /\ UNCHANGED <<pagesElt, pageNo>>
                   ELSE /\ pagesElt' = Append_(pagesElt, pageElt.elt)
                        /\ pageNo' = pageNo + 1
                        /\ pc' = "pages"
    /\ UNCHANGED <<docOpen, propertiesElt, exceptionsFileElt, docInfo, report,
                   streamVars>>

\* lines 128-138: the report is assembled and returned
Finish ==
    /\ pc = "pages"
    /\ pageNo > doc.page_count
    /\ propertiesElt' =
          Append_(Append_(Append_(Append_(Append_(Append_(propertiesElt,
              docInfo.metadataElt), docInfo.pageModeElt),
              docInfo.signatureFlagElt),
              WithText(Element("noPages"), Str(PyInt(docInfo.pages)))),
              pagesElt), exceptionsFileElt)
    /\ report' = propertiesElt'
    /\ pc' = "returned"
    /\ UNCHANGED <<doc, docOpen, exceptionsFileElt, docInfo, pagesElt, pageNo,
                   streamVars>>

Next ==
    \/ Start
    \/ OpenRaises
    \/ AuthenticateRaises
    \/ PasswordProtected
    \/ OpenOk
    \/ ReadDocInfo
    \/ NextPage
    \/ Finish

Spec == Init /\ [][Next]_vars

(***************************************************************************)
(* getImageStreamProperties on every stream of StreamInputs                *)
(***************************************************************************)
StreamCall(s) ==
    LET r == getImageStreamProperties(s, 1)
    IN  /\ im' = s
        /\ streamResult' = [called |-> TRUE, raised |-> r.raised, elt |-> r.elt]
        /\ UNCHANGED docVars

\* a stream PIL cannot decode
CallUndecodable ==
    /\ ~streamResult.called
    /\ StreamCall(UndecodableStream)

\* a stream PIL decodes, with every outcome of the later collaborators
CallDecoded ==
    /\ ~streamResult.called
    /\ \E f \in Formats, mb \in ModeBands, d \in InfoDicts :
          \E q \in JqOutcomes(f), c \in IccOutcomes(d) :
              StreamCall(DecodedStream(f, mb, d, q, c))

NextStream ==
    \/ CallUndecodable
    \/ CallDecoded

SpecStream == Init /\ [][NextStream]_vars

(***************************************************************************)
(* Properties of getProperties, checked under Spec                         *)
(***************************************************************************)
\* nothing below the document level was read or built
NothingExtracted ==
    /\ pagesElt = NoElt
    /\ docInfo = NoDocInfo
    /\ doc.pages = <<>>
    /\ \A x \in Xrefs : doc.objs[x] = Unread

\* the report lists every page and, per page, every enumerated image
ReportComplete ==
    /\ HasChild(report, "noPages")
    /\ HasChild(report, "pages")
    /\ LET pages == Find(report, "pages").children
       IN  /\ Find(report, "noPages").text = ToString(Len(pages))
           /\ Len(pages) = Len(doc.pages)
           /\ \A k \in 1..Len(pages) :
                 /\ pages[k].tag = "page"
                 /\ pages[k].attrib = << <<"number", ToString(k)>> >>
                 /\ Len(pages[k].children) = Len(doc.pages[k])
                 /\ \A j \in 1..Len(pages[k].children) :
                       LET image == pages[k].children[j]
                       IN  /\ image.tag = "image"
                           /\ Tags(image) = <<"dict", "stream">>
                           /\ Find(image.children[1], "xref").text
                                 = ToString(doc.pages[k][j])

\* C1: a failure while processing one embedded image is contained at the
\* stream level: once the document opened without a password, getProperties
\* never ends by raising, and the report it returns has an entry for every
\* page and every image of the document.
C1_ImageFailureContained ==
    doc.open = "ok" =>
        /\ pc # "raised"
        /\ pc = "returned" => ReportComplete

\* C3: a report whose openPassword flag is True holds exactly filePath,
\* fileSize and openPassword, and no page or image was extracted for it.
C3_PasswordReportMinimal ==
    (/\ pc = "returned"
     /\ HasChild(report, "openPassword")
     /\ Find(report, "openPassword").text = "True")
    => /\ Tags(report) = <<"filePath", "fileSize", "openPassword">>
       /\ NothingExtracted

C3_Witness ==
    /\ pc = "returned"
    /\ doc.open = "password"
    /\ Find(report, "openPassword").text = "True"

\* C7: when pymupdf.open or doc.authenticate raises, getProperties has
\* returned in that same step a report of filePath, fileSize and an
\* exceptions list holding exactly one exception; openPassword is omitted.
C7_OpenFailureReport ==
    doc.open \in {"openRaised", "authenticateRaised"}
    => /\ pc = "returned"
       /\ Tags(report) = <<"filePath", "fileSize", "exceptions">>
       /\ Len(Find(report, "exceptions").children) = 1
       /\ Tags(Find(report, "exceptions")) = <<"exception">>
       /\ NothingExtracted

C7_Witness ==
    /\ pc = "returned"
    /\ doc.open = "authenticateRaised"
    /\ HasChild(report, "exceptions")

\* C8: for a document that opens without a password and whose extraction
\* completes, noPages equals the number of page entries, page entry i carries
\* number i from 1 on, and each page holds one image entry per enumerated
\* image reference, in order, a repeated reference being reported each time.
C8_PagesAndImagesCounted ==
    (pc = "returned" /\ doc.open = "ok")
    => /\ ReportComplete
       /\ Tags(report) = <<"filePath", "fileSize", "openPassword", "meta",
                           "PageMode", "signatureFlag", "noPages", "pages",
                           "exceptions">>

C8_Witness ==
    /\ pc = "returned"
    /\ doc.open = "ok"
    /\ Len(doc.pages) = 2
    /\ \E k \in 1..2 :
          /\ Len(doc.pages[k]) = 2
          /\ doc.pages[k][1] = doc.pages[k][2]
          /\ Len(Find(report, "pages").children[k].children) = 2

\* C9: whenever getProperties returns a report for a document it opened,
\* the document handle has been closed.
C9_ClosedBeforeReturn ==
    pc = "returned" => ~docOpen

(***************************************************************************)
(* Properties of getImageStreamProperties, checked under SpecStream        *)
(***************************************************************************)
\* the call returned a stream node (it did not raise)
NodeReturned == streamResult.called /\ ~streamResult.raised

node == streamResult.elt

\* the children dictionaryToElt made: all but the appended exceptions element
FieldCount == Len(node.children) - 1

HasField(tag) == \E k \in 1..FieldCount : node.children[k].tag = tag

FieldText(tag) ==
    node.children[CHOOSE k \in 1..FieldCount : node.children[k].tag = tag].text

FieldIndex(tag) == CHOOSE k \in 1..FieldCount : node.children[k].tag = tag

StreamExceptions == node.children[Len(node.children)]

ExceptionCount == Len(StreamExceptions.children)

PropertyFields ==
    {"format", "width", "height", "mode", "components", "bpc", "JPEGQuality",
     "NSE_JPEGQuality", "icc_profile_name", "icc_profile_description"}

\* the text of a non-negative integer of the range bpc can take
IsNonNegativeIntegerText(text) == \E n \in 0..32 : text = ToString(n)

\* C2: for an image that decodes, getImageStreamProperties returns a node
\* with a bpc field that is a non-negative integer or -9999, and -9999 when
\* the mode is not in mode_to_bpp or the component count is zero; it does
\* not raise.
C2_BpcAlwaysDerived ==
    (streamResult.called /\ im.decode = "ok")
    => /\ ~streamResult.raised
       /\ HasField("bpc")
       /\ IsNonNegativeIntegerText(FieldText("bpc")) \/ FieldText("bpc") = "-9999"
       /\ (~HasKey(mode_to_bpp, im.mode) \/ im.bands = 0)
              => FieldText("bpc") = "-9999"

\* C4: for a stream that fails to decode, the returned node holds exactly
\* one stream-level exception and no property field; nothing is raised.
C4_UndecodableNode ==
    (streamResult.called /\ im.decode = "raise")
    => /\ ~streamResult.raised
       /\ Tags(node) = <<"exceptions">>
       /\ Tags(StreamExceptions) = <<"exception">>
       /\ \A f \in PropertyFields : ~HasField(f)

C4_Witness ==
    /\ NodeReturned
    /\ im.decode = "raise"
    /\ ExceptionCount = 1

\* the ICC block ran to its end
IccSucceeded == im.icc = "ok"

\* C5: for a decoded image, when ICC handling fails the node has an exception
\* for it and neither icc_profile_name nor icc_profile_description; when it
\* succeeds both fields are present.
C5_IccAllOrNothing ==
    (NodeReturned /\ im.decode = "ok")
    => IF IccSucceeded
       THEN HasField("icc_profile_name") /\ HasField("icc_profile_description")
       ELSE /\ ExceptionCount >= 1
            /\ ~HasField("icc_profile_name")
            /\ ~HasField("icc_profile_description")

\* the estimator ran on a decoded JPEG and returned
QualityEstimated == im.decode = "ok" /\ im.format = "JPEG" /\ im.jq = "ok"

\* C6 as claimed: the JPEG-quality fields are present if and only if the
\* stream decoded as JPEG and the estimator returned, whatever im.info holds.
C6_QualityFieldsIffEstimated ==
    NodeReturned
    => /\ HasField("JPEGQuality") <=> QualityEstimated
       /\ HasField("NSE_JPEGQuality") <=> QualityEstimated

\* im.info holds the key with a value the merge writes under that key
InfoWrites(key) ==
    /\ im.decode = "ok"
    /\ HasKey(im.info, key)
    /\ Get(im.info, key).t # "tuple"

\* C6 as amended: each JPEG-quality field is present if and only if the
\* stream decoded as JPEG and the estimator returned, or im.info holds a key
\* of that name whose value is not a tuple.
C6_QualityFieldsIffWritten ==
    NodeReturned
    => /\ HasField("JPEGQuality")
             <=> (QualityEstimated \/ InfoWrites("JPEGQuality"))
       /\ HasField("NSE_JPEGQuality")
             <=> (QualityEstimated \/ InfoWrites("NSE_JPEGQuality"))

C6_Witness ==
    /\ NodeReturned
    /\ im.format = "PNG"
    /\ InfoWrites("JPEGQuality")
    /\ HasField("JPEGQuality")
    /\ ~HasField("NSE_JPEGQuality")

\* the properties set before the merge, in the order they are set
ComputedKeys ==
    <<"format", "width", "height", "mode", "components", "bpc">>
    \o (IF QualityEstimated THEN <<"JPEGQuality", "NSE_JPEGQuality">> ELSE <<>>)

IsComputed(key) == \E k \in 1..Len(ComputedKeys) : ComputedKeys[k] = key

ComputedIndex(key) == CHOOSE k \in 1..Len(ComputedKeys) : ComputedKeys[k] = key

\* the text the computed property has when nothing overwrites it
ComputedText(key) ==
    CASE key = "format" -> im.format
      [] key = "JPEGQuality" -> "84.5"
      [] OTHER -> ""

\* C10: a merged key that collides with a computed property replaces its
\* value and keeps its place; bytes values appear as 'bytestream'; a dpi
\* pair appears only as ppi_x/ppi_y, a jfif_density pair only as
\* jfif_density_x/jfif_density_y; any other tuple-valued entry is absent.
C10_MergeRules ==
    (NodeReturned /\ im.decode = "ok")
    => \A k \in 1..Len(im.info) :
          LET key == im.info[k][1]
              value == im.info[k][2]
          IN  /\ value.t = "bytes"
                    => HasField(key) /\ FieldText(key) = "bytestream"
              /\ value.t = "int"
                    => HasField(key) /\ FieldText(key) = ToString(value.i)
              /\ (value.t # "tuple" /\ IsComputed(key))
                    => FieldIndex(key) = ComputedIndex(key)
              /\ (value.t = "tuple" /\ key = "dpi")
                    => /\ ~HasField("dpi")
                       /\ HasField("ppi_x") /\ FieldText("ppi_x") = ToString(value.a)
                       /\ HasField("ppi_y") /\ FieldText("ppi_y") = ToString(value.b)
              /\ (value.t = "tuple" /\ key = "jfif_density")
                    => /\ ~HasField("jfif_density")
                       /\ HasField("jfif_density_x")
                       /\ FieldText("jfif_density_x") = ToString(value.a)
                       /\ HasField("jfif_density_y")
                       /\ FieldText("jfif_density_y") = ToString(value.b)
              /\ (value.t = "tuple" /\ key \notin {"dpi", "jfif_density"})
                    => IF IsComputed(key)
                       THEN FieldText(key) = ComputedText(key)
                       ELSE ~HasField(key)

C10_Witness ==
    /\ NodeReturned
    /\ QualityEstimated
    /\ Len(im.info) = 2
    /\ im.info[1] = <<"JPEGQuality", PyBytes("raw")>>
    /\ im.info[2] = <<"dpi", PyTuple(72, 96)>>
    /\ FieldIndex("JPEGQuality") = 7
    /\ FieldText("JPEGQuality") = "bytestream"

=============================================================================
